---- MODULE Spec2Model ----
(***************************************************************************)
(* Assistant / Topic / Message management of the API server: the two       *)
(* service classes (AssistantApiService, TopicApiService), the REST routes *)
(* and MCP tool handlers that call them, the shared Redux store they       *)
(* dispatch to and the renderer database they write behind.                *)
(*                                                                         *)
(* Every service method is cut at its awaits: the read (select), the       *)
(* dispatch and the database script are separate steps, so that concurrent *)
(* calls interleave exactly where the event loop lets them.                *)
(***************************************************************************)
EXTENDS Integers, Sequences, FiniteSets, TLC

VARIABLES
  ready,       \* the store's state.assistants.assistants is initialised
  assistants,  \* shared store: state.assistants.assistants (sequence of Assistant)
  db,          \* durable store: window.db.topics, topic id -> message list
  nextId,      \* the next value uuid() returns
  now,         \* the clock behind new Date().toISOString()
  calls,       \* the API calls in flight, one record per caller
  ops,         \* the number of calls made so far
  subscribers, \* the event-stream connections, one record per client
  clock        \* the time the pulse timers run on

vars == << ready, assistants, db, nextId, now, calls, ops, subscribers, clock >>

\* the stores and the calls on them; the event streams
storeVars == << ready, assistants, db, nextId, now, calls, ops >>
chanVars  == << subscribers, clock >>

----------------------------------------------------------------------------
(* Bounds *)

NumCalls == 2      \* concurrent callers
MaxIds   == 5      \* uuid() is called while nextId <= MaxIds
MaxTime  == 1      \* the clock runs from 0 to MaxTime
MaxOps   == 2      \* calls made in one run
NumSubscribers == 2 \* clients of the event streams
MaxQuanta == 4     \* the pulse timers are followed for MaxQuanta steps of time

Calls == 1 .. NumCalls

----------------------------------------------------------------------------
(* Values *)

DefaultId      == 0     \* the assistant id 'default'
InitialTopicId == 1     \* the id of the default assistant's first topic
FirstUuid      == 2     \* uuid() returns FirstUuid, FirstUuid + 1, ...
UnknownId      == -1    \* an id a caller made up; names nothing
Missing        == -9    \* an argument the caller left out (undefined)

Null == << >>           \* null / undefined result; a found value v is <<v>>
Empty == << >>          \* the partial object {}

\* {...base, ...over}: object spread, later keys win
Spread(base, over) == over @@ base

Has(obj, key) == key \in DOMAIN obj

\* Array.prototype.filter
Filter(s, Keep(_)) == SelectSeq(s, Keep)

\* Array.prototype.find: the first element satisfying Test, or Null
Find(s, Test(_)) ==
  IF \E i \in 1 .. Len(s) : Test(s[i])
  THEN << s[CHOOSE i \in 1 .. Len(s) :
               Test(s[i]) /\ \A j \in 1 .. (i - 1) : ~Test(s[j])] >>
  ELSE Null

\* Array.prototype.map
Map(s, F(_)) == [ i \in 1 .. Len(s) |-> F(s[i]) ]

\* Array.prototype.flatMap over the assistants' topics
RECURSIVE FlatTopics(_, _)
FlatTopics(as, i) ==
  IF i > Len(as) THEN << >> ELSE as[i].topics \o FlatTopics(as, i + 1)

AllTopics(as) == FlatTopics(as, 1)

Range(s) == { s[i] : i \in 1 .. Len(s) }

----------------------------------------------------------------------------
(* Error messages.  A message is the sequence of its parts, so that a      *)
(* prefix added by a route or a handler is a concatenation and             *)
(* message.includes('not found') is a test on the parts.                   *)

AssistantNotFoundMsg    == << "Assistant <id> not found" >>
\* what a catch that rethrows new Error(...) leaves of a thrown message
MaskedTopicMsg          == << "Failed to add message" >>
TopicNotFoundMsg        == << "Topic <id> not found" >>
RetrieveAssistantMsg    == << "Failed to retrieve assistant <id>" >>
CreateTopicFailedMsg    == << "Failed to create topic" >>
CreateAssistantFailedMsg == << "Failed to create assistant" >>
DbErrorMsg              == << "<database error>" >>
NoMsg                   == << >>
TypeErrorMsg            == << "<TypeError>" >>
InternalErrorMsg        == << "Internal error" >>
UnknownToolMsg          == << "Unknown tool: <name>" >>
AssistantNotFoundToolMsg == << "Assistant with ID <id> not found" >>
NoAssistantsMsg         == << "No assistants available to create a conversation with" >>

\* message.includes('not found')
IncludesNotFound(msg) ==
  \E i \in 1 .. Len(msg) :
    msg[i] \in { "Assistant <id> not found", "Topic <id> not found",
                 "Assistant not found", "Assistant not found: <id>" }

\* the outcome of a service method: a value or a thrown Error
Ok(v)      == [ ok |-> TRUE,  msg |-> NoMsg, val |-> << v >> ]
OkVoid     == [ ok |-> TRUE,  msg |-> NoMsg, val |-> << >> ]
Throw(msg) == [ ok |-> FALSE, msg |-> msg,   val |-> << >> ]

----------------------------------------------------------------------------
(* Reads of the shared store *)

\* AssistantApiService.getAssistantById: assistants.find on an
\* uninitialised collection throws, and the catch rethrows a new Error
getAssistantById(id) ==
  IF ~ready THEN Throw(RetrieveAssistantMsg)
  ELSE [ ok |-> TRUE, msg |-> NoMsg, val |-> Find(assistants, LAMBDA a : a.id = id) ]

\* TopicApiService.getTopicById: the first match over all assistants
getTopicById(id) ==
  IF ~ready THEN Null
  ELSE Find(AllTopics(assistants), LAMBDA t : t.id = id)

\* getTopicMessages failing on a topic that has no messages
getTopicMessagesStrict(id) ==
  LET topic == getTopicById(id)
  IN  IF topic = Null \/ ~Has(topic[1], "messages") \/ topic[1].messages = << >>
      THEN Throw(TopicNotFoundMsg)
      ELSE Ok(topic[1].messages)

\* TopicApiService.getTopicMessages: return topic.messages || []
getTopicMessages(id) ==
  LET topic == getTopicById(id)
  IN  IF topic = Null THEN Throw(TopicNotFoundMsg)
      ELSE IF Has(topic[1], "messages") THEN Ok(topic[1].messages)
      ELSE Ok(<< >>)

----------------------------------------------------------------------------
(* The shared store's reducers.  dispatch() hands the action to the        *)
(* renderer's store, which applies it to every Assistant carrying the id   *)
(* the action names.                                                       *)

\* dispatch() fails while the store is not initialised
DispatchFails == ~ready

\* assistants/addAssistant
AddAssistantAction(as, assistant) == Append(as, assistant)

\* assistants/updateAssistant: the merged record replaces the stored one
UpdateAssistantAction(as, assistant) ==
  Map(as, LAMBDA a : IF a.id = assistant.id THEN assistant ELSE a)

\* assistants/removeAssistant
RemoveAssistantAction(as, id) == Filter(as, LAMBDA a : a.id # id)

\* assistants/addTopic
AddTopicAction(as, assistantId, topic) ==
  Map(as, LAMBDA a : IF a.id = assistantId
                     THEN [ a EXCEPT !.topics = Append(@, topic) ] ELSE a)

\* assistants/updateTopic
UpdateTopicAction(as, assistantId, topic) ==
  Map(as, LAMBDA a :
    IF a.id = assistantId
    THEN [ a EXCEPT !.topics = Map(@, LAMBDA t : IF t.id = topic.id THEN topic ELSE t) ]
    ELSE a)

\* assistants/removeTopic
RemoveTopicAction(as, assistantId, topic) ==
  Map(as, LAMBDA a :
    IF a.id = assistantId
    THEN [ a EXCEPT !.topics = Filter(@, LAMBDA t : t.id # topic.id) ]
    ELSE a)

----------------------------------------------------------------------------
(* The durable store: put, delete *)

DbPut(d, id, messages) == [ k \in DOMAIN d \cup { id } |-> IF k = id THEN messages ELSE d[k] ]
DbDelete(d, id)        == [ k \in DOMAIN d \ { id } |-> d[k] ]

\* db.topics.update(id, { messages }): changes the record of id if there is
\* one, and nothing otherwise
DbUpdate(d, id, messages) == IF id \in DOMAIN d THEN DbPut(d, id, messages) ELSE d

----------------------------------------------------------------------------
(* Calls in flight *)

Idle == [ op |-> "idle", pc |-> "idle", id |-> Missing, fields |-> Empty,
          rd |-> Null, out |-> Null, dbres |-> "", rejected |-> FALSE, res |-> OkVoid,
          noargs |-> FALSE ]

\* the caller of p has no call in flight: it made none yet, or it has the
\* answer of its last one
IsIdle(p) == calls[p].pc \in { "idle", "done" }

\* callers are interchangeable: caller p + 1 is used only while caller p is busy
MayStart(p) ==
  /\ IsIdle(p)
  /\ ops < MaxOps
  /\ \A q \in Calls : q < p => ~IsIdle(q)

\* a call that has passed its first step
Started(op, pc, id, fields) ==
  [ Idle EXCEPT !.op = op, !.pc = pc, !.id = id, !.fields = fields ]

\* the service method returned or threw
Done(c, res) == [ c EXCEPT !.pc = "done", !.res = res ]

\* the route answered before calling the service
Rejected(c, msg) == [ c EXCEPT !.pc = "done", !.rejected = TRUE, !.res = Throw(msg) ]

----------------------------------------------------------------------------
(* What the caller gets: the REST routes turn the service's outcome into   *)
(* a status and a message, the tool handler into a content block.          *)

RestPrefix(op) ==
  CASE op = "createTopic"       -> << "Failed to create topic: " >>
    [] op = "postTopics"        -> << "Failed to create topic: " >>
    [] op = "updateTopic"       -> << "Failed to update topic: " >>
    [] op = "deleteTopic"       -> << "Failed to delete topic: " >>
    [] op = "addMessageToTopic" -> << "Failed to add message to topic: " >>
    [] op = "createAssistant"   -> << "Failed to create assistant: " >>
    [] op = "updateAssistant"   -> << "Failed to update assistant: " >>
    [] op = "deleteAssistant"   -> << "Failed to delete assistant: " >>
    [] op = "getAllAssistants"  -> << "Failed to retrieve assistants: " >>
    [] op = "getAllTopics"      -> << "Failed to retrieve topics: " >>
    [] op = "inlineListTopics"  -> << "Failed to retrieve topics: " >>
    [] op = "getTopicMessages"  -> << "Failed to retrieve topic messages: " >>
    [] op = "getAssistant"      -> << "Failed to retrieve assistant: " >>
    [] op = "topicDetails"      -> << "Failed to retrieve topic details: " >>

\* the success status of a route
RestSuccess(op) ==
  IF op \in { "createTopic", "postTopics", "addMessageToTopic", "createAssistant" }
  THEN 201 ELSE 200

\* the catch block of a route: 404 when the message includes 'not found'
\* (createAssistant's route answers 400 whatever the message); POST / of
\* the topics router answers 404 itself and 500 from its catch block
RestFailure(op, msg) ==
  IF op = "postTopics" THEN (IF msg = << "Assistant not found" >> THEN 404 ELSE 500)
  ELSE IF op \in { "getAllAssistants", "getAllTopics", "getAssistant" } THEN 503
  ELSE IF op = "getTopicMessages" THEN (IF IncludesNotFound(msg) THEN 404 ELSE 503)
  ELSE IF op = "inlineListTopics" THEN 500
  ELSE IF op = "topicDetails" THEN (IF msg = << "Topic not found" >> THEN 404 ELSE 500)
  ELSE IF op # "createAssistant" /\ IncludesNotFound(msg) THEN 404 ELSE 400

ToolPrefix(op) ==
  CASE op = "createTopic"       -> << "Error calling tool create_topic: " >>
    [] op = "mcpCreateTopic"    -> << "Error: " >>
    [] op = "updateTopic"       -> << "Error calling tool update_topic: " >>
    [] op = "deleteTopic"       -> << "Error calling tool delete_topic: " >>
    [] op = "addMessageToTopic" -> << "Error calling tool send_message: " >>
    [] op = "createAssistant"   -> << "Error calling tool create_assistant: " >>
    [] op = "updateAssistant"   -> << "Error calling tool update_assistant: " >>
    [] op = "deleteAssistant"   -> << "Error calling tool delete_assistant: " >>
    [] op = "getAllAssistants"  -> << "Error calling tool list_assistants: " >>
    [] op = "getAllTopics"      -> << "Error calling tool list_topics: " >>
    [] op = "inlineListTopics"  -> << "Error: " >>
    [] op = "getTopicMessages"  -> << "Error calling tool get_topic_messages: " >>
    [] op = "getAssistant"      -> << "Error calling tool get_assistant: " >>
    [] op = "mcpUnknownTool"    -> << "Error: " >>
    [] op = "createNewConversation" -> << "Failed to create new conversation: " >>

\* get_assistant found nothing: getAssistantById returned null, and the
\* route and the tool handler each answer that themselves
GotNoAssistant(c) == c.op = "getAssistant" /\ c.res.ok /\ c.res.val = Null

\* the answer of the REST route to a finished call
RestStatus(c) ==
  IF c.rejected THEN 400
  ELSE IF GotNoAssistant(c) THEN 404
  ELSE IF c.res.ok THEN RestSuccess(c.op)
  ELSE RestFailure(c.op, c.res.msg)

RestMessage(c) ==
  IF c.rejected \/ (c.op = "postTopics" /\ c.res.msg = << "Assistant not found" >>)
               \/ (c.op = "topicDetails" /\ c.res.msg = << "Topic not found" >>)
  THEN c.res.msg
  ELSE IF GotNoAssistant(c) THEN << "Assistant not found" >>
  ELSE IF c.res.ok THEN NoMsg
  ELSE RestPrefix(c.op) \o c.res.msg

\* a tool handler without its catch block: the error leaves the handler
UncaughtError(op, msg) == [ kind |-> "escaped", text |-> msg ]

\* the catch block of a tool handler: an isError block with the message
CaughtError(op, msg) == [ kind |-> "isError", text |-> ToolPrefix(op) \o msg ]

\* what the tool handler returns for a finished call: the blocks it builds
\* itself (a result, 'not found' of get_assistant, 'Unknown tool' of the
\* default case, 'No assistants available' of create_new_conversation) or
\* the block of its catch
ToolResult(c) ==
  IF GotNoAssistant(c) THEN [ kind |-> "isError", text |-> AssistantNotFoundToolMsg ]
  ELSE IF c.op = "unknownTool" THEN [ kind |-> "isError", text |-> UnknownToolMsg ]
  ELSE IF c.op = "createNewConversation" /\ c.res.msg = NoAssistantsMsg
  THEN [ kind |-> "isError", text |-> NoAssistantsMsg ]
  ELSE IF c.res.ok THEN [ kind |-> "content", text |-> NoMsg ]
  ELSE CaughtError(c.op, c.res.msg)

\* the answer of the tool handler to a finished call: isError and its text
ToolIsError(c) == ToolResult(c).kind = "isError"

ToolMessage(c) == ToolResult(c).text

----------------------------------------------------------------------------
(* What callers send *)

\* a Topic object written by a caller
CallerTopic(id, assistantId) ==
  [ id |-> id, assistantId |-> assistantId, name |-> "c",
    createdAt |-> 0, updatedAt |-> 0, messages |-> << >> ]

\* the ids a caller can put in a request: the ones of the stored entities
\* and one that names nothing
AssistantIds == { UnknownId } \cup { a.id : a \in Range(assistants) }
TopicIds     == { UnknownId } \cup { t.id : t \in Range(AllTopics(assistants)) }

\* Partial<Assistant> bodies of create_assistant
AssistantData ==
  { Empty,
    [ id |-> DefaultId ],
    [ topics |-> << >> ],
    [ topics |-> << CallerTopic(InitialTopicId, UnknownId), CallerTopic(UnknownId, UnknownId) >> ] }

\* Partial<Assistant> bodies of update_assistant
AssistantUpdates ==
  { [ name |-> "c" ],
    [ id |-> UnknownId ],
    [ topics |-> << CallerTopic(InitialTopicId, UnknownId) >> ] }

----------------------------------------------------------------------------
(* AssistantApiService *)

\* createAssistant calls uuid() for the default topic's id, for the
\* placeholder of its assistantId when the caller gave no id, and for the
\* assistant's id
CreateAssistantUuids(data) == IF Has(data, "id") THEN 2 ELSE 3

\* the object createAssistant builds: defaults, then the caller's fields
NewAssistant(data, uuid, time) ==
  LET defaultTopic ==
        [ id |-> uuid,
          assistantId |-> IF Has(data, "id") THEN data.id ELSE uuid + 1,
          name |-> "New Conversation", createdAt |-> time, updatedAt |-> time,
          messages |-> << >> ]
  IN  Spread([ id |-> uuid + CreateAssistantUuids(data) - 1, name |-> "New Assistant",
               topics |-> << defaultTopic >> ],
             data)

\* newAssistant.topics[0].assistantId = newAssistant.id
WithFirstTopicOwned(assistant) ==
  [ assistant EXCEPT !.topics[1].assistantId = assistant.id ]

\* createAssistant: no read; build, dispatch addAssistant, return.  With an
\* empty topics array topics[0] is undefined and the assignment throws.
CreateAssistant(p, data) ==
  /\ MayStart(p)
  /\ ops' = ops + 1
  /\ nextId + CreateAssistantUuids(data) - 1 <= MaxIds
  /\ LET c  == Started("createAssistant", "build", Missing, data)
         na == NewAssistant(data, nextId, now)
     IN  IF Len(na.topics) = 0 \/ DispatchFails
         THEN /\ calls' = [ calls EXCEPT ![p] = Done(c, Throw(CreateAssistantFailedMsg)) ]
              /\ UNCHANGED assistants
         ELSE /\ assistants' = AddAssistantAction(assistants, WithFirstTopicOwned(na))
              /\ calls' = [ calls EXCEPT ![p] = Done(c, Ok(WithFirstTopicOwned(na))) ]
  /\ nextId' = nextId + CreateAssistantUuids(data)
  /\ UNCHANGED << ready, db, now >>
  /\ UNCHANGED chanVars

\* updateAssistant without the pinned id: the caller's id wins
MergedAssistantUnpinned(assistant, updates, id) == Spread(assistant, updates)

\* { ...assistant, ...updates, id }
MergedAssistant(assistant, updates, id) ==
  Spread(Spread(assistant, updates), [ id |-> id ])

\* updateAssistant up to its dispatch: getAssistantById and the merge
UpdateAssistantRead(p, id, updates) ==
  /\ MayStart(p)
  /\ ops' = ops + 1
  /\ LET c == Started("updateAssistant", "dispatch", id, updates)
         r == getAssistantById(id)
     IN  calls' = [ calls EXCEPT ![p] =
           IF ~r.ok THEN Done(c, Throw(r.msg))
           ELSE IF r.val = Null THEN Done(c, Throw(AssistantNotFoundMsg))
           ELSE [ c EXCEPT !.rd = r.val,
                           !.out = << MergedAssistant(r.val[1], updates, id) >> ] ]
  /\ UNCHANGED << ready, assistants, db, nextId, now >>
  /\ UNCHANGED chanVars

\* updateAssistant: the dispatch lands and the method returns
UpdateAssistantDispatch(p) ==
  /\ calls[p].op = "updateAssistant" /\ calls[p].pc = "dispatch"
  /\ assistants' = UpdateAssistantAction(assistants, calls[p].out[1])
  /\ calls' = [ calls EXCEPT ![p] = Done(calls[p], Ok(calls[p].out[1])) ]
  /\ UNCHANGED << ready, db, nextId, now, ops >>
  /\ UNCHANGED chanVars

\* deleteAssistant up to its dispatch
DeleteAssistantRead(p, id) ==
  /\ MayStart(p)
  /\ ops' = ops + 1
  /\ LET c == Started("deleteAssistant", "dispatch", id, Empty)
         r == getAssistantById(id)
     IN  calls' = [ calls EXCEPT ![p] =
           IF ~r.ok THEN Done(c, Throw(r.msg))
           ELSE IF r.val = Null THEN Done(c, Throw(AssistantNotFoundMsg))
           ELSE [ c EXCEPT !.rd = r.val ] ]
  /\ UNCHANGED << ready, assistants, db, nextId, now >>
  /\ UNCHANGED chanVars

\* deleteAssistant deleting the database records of the Assistant's Topics
\* as well
DeleteAssistantDispatchPurging(p) ==
  /\ calls[p].op = "deleteAssistant" /\ calls[p].pc = "dispatch"
  /\ assistants' = RemoveAssistantAction(assistants, calls[p].id)
  /\ db' = [ k \in DOMAIN db \ { t.id : t \in Range(calls[p].rd[1].topics) } |-> db[k] ]
  /\ calls' = [ calls EXCEPT ![p] = Done(calls[p], OkVoid) ]
  /\ UNCHANGED << ready, nextId, now, ops >>
  /\ UNCHANGED chanVars

\* deleteAssistant: the dispatch lands and the method returns
DeleteAssistantDispatch(p) ==
  /\ calls[p].op = "deleteAssistant" /\ calls[p].pc = "dispatch"
  /\ assistants' = RemoveAssistantAction(assistants, calls[p].id)
  /\ calls' = [ calls EXCEPT ![p] = Done(calls[p], OkVoid) ]
  /\ UNCHANGED << ready, db, nextId, now, ops >>
  /\ UNCHANGED chanVars

----------------------------------------------------------------------------
(* TopicApiService *)

\* Partial<Topic> bodies of create_topic
TopicData ==
  { Empty,
    [ id |-> InitialTopicId ],
    [ assistantId |-> UnknownId, name |-> "c" ] }

\* a time a caller wrote in a body: one the clock has not reached
LaterTime == MaxTime + 1


\* Partial<Topic> bodies of update_topic
TopicUpdates ==
  { [ name |-> "c" ],
    [ id |-> UnknownId, assistantId |-> UnknownId ],
    [ messages |-> << >> ],
    [ createdAt |-> LaterTime ] }

\* Partial<Message> bodies of send_message
MessageData ==
  { [ content |-> "hi", role |-> "user" ],
    [ content |-> "hi" ],
    [ content |-> "hi", role |-> "assistant", topicId |-> UnknownId, assistantId |-> UnknownId ] }

\* the outcomes of the database script: it ran, it threw, or there was no
\* main window to run it in
DbOutcomes == { "ok", "fail", "none" }

\* createTopic without the final assistantId: the caller's field would win
NewTopicUnforced(assistantId, topicData, uuid, time) ==
  Spread([ id |-> uuid, assistantId |-> assistantId, name |-> "New Conversation",
           createdAt |-> time, updatedAt |-> time, messages |-> << >> ],
         topicData)

\* the object createTopic builds: defaults, the caller's fields, assistantId
NewTopic(assistantId, topicData, uuid, time) ==
  Spread(Spread([ id |-> uuid, assistantId |-> assistantId, name |-> "New Conversation",
                  createdAt |-> time, updatedAt |-> time, messages |-> << >> ],
                topicData),
         [ assistantId |-> assistantId ])

\* POST /v1/topics without assistant_id: 400 before the service is called
\* (the tool handler has no such check and calls createTopic(undefined, ...))
RejectCreateTopic(p, topicData) ==
  /\ MayStart(p)
  /\ ops' = ops + 1
  /\ calls' = [ calls EXCEPT ![p] =
       Rejected(Started("createTopic", "route", Missing, topicData),
                << "assistant_id is required" >>) ]
  /\ UNCHANGED << ready, assistants, db, nextId, now >>
  /\ UNCHANGED chanVars

\* createTopic up to its dispatch: getAssistantById, the new object.  Every throw inside the method is
\* caught and replaced by Error('Failed to create topic').
CreateTopicRead(p, assistantId, topicData) ==
  /\ MayStart(p)
  /\ ops' = ops + 1
  /\ LET c == Started("createTopic", "dispatch", assistantId, topicData)
         r == getAssistantById(assistantId)
     IN  IF ~r.ok \/ r.val = Null
         THEN /\ calls' = [ calls EXCEPT ![p] = Done(c, Throw(CreateTopicFailedMsg)) ]
              /\ UNCHANGED nextId
         ELSE /\ nextId <= MaxIds
              /\ calls' = [ calls EXCEPT ![p] =
                   [ c EXCEPT !.rd = r.val,
                              !.out = << NewTopic(assistantId, topicData, nextId, now) >> ] ]
              /\ nextId' = nextId + 1
  /\ UNCHANGED << ready, assistants, db, now >>
  /\ UNCHANGED chanVars

\* createTopic: the addTopic dispatch lands
CreateTopicDispatch(p) ==
  /\ calls[p].op \in { "createTopic", "createNewConversation" } /\ calls[p].pc = "dispatch"
  /\ assistants' = AddTopicAction(assistants, calls[p].id, calls[p].out[1])
  /\ calls' = [ calls EXCEPT ![p].pc = "db" ]
  /\ UNCHANGED << ready, db, nextId, now, ops >>
  /\ UNCHANGED chanVars

\* createTopic: db.topics.add({ id, messages: [] }); a failure is logged
\* and the method returns the topic all the same
CreateTopicDb(p, outcome) ==
  /\ calls[p].op \in { "createTopic", "createNewConversation" } /\ calls[p].pc = "db"
  /\ db' = IF outcome = "ok" THEN DbPut(db, calls[p].out[1].id, << >>) ELSE db
  /\ calls' = [ calls EXCEPT ![p] =
       Done([ calls[p] EXCEPT !.dbres = outcome ], Ok(calls[p].out[1])) ]
  /\ UNCHANGED << ready, assistants, nextId, now, ops >>
  /\ UNCHANGED chanVars

\* the arguments of create_new_conversation
ConversationArgs ==
  { Empty, [ name |-> "c", prompt |-> "p" ], [ prompt |-> "" ] }

\* { name, ...(prompt && { prompt }) } with name = 'New Conversation' by default
ConversationTopicData(args) ==
  Spread([ name |-> IF Has(args, "name") THEN args.name ELSE "New Conversation" ],
         IF Has(args, "prompt") /\ args.prompt # "" THEN [ prompt |-> args.prompt ] ELSE Empty)

\* create_new_conversation taking the first assistant whatever its id
FirstAssistant(as) == as[1]

\* assistants.find(a => a.id === 'default') || assistants[0]
DefaultAssistant(as) ==
  LET found == Find(as, LAMBDA a : a.id = DefaultId)
  IN  IF found # Null THEN found[1] ELSE as[1]

\* create_new_conversation up to its call of createTopic: select the
\* assistants, pick the default one, build the topic data
NewConversationSelect(p, args) ==
  /\ MayStart(p)
  /\ ops' = ops + 1
  /\ LET c == Started("createNewConversation", "read", Missing, args)
     IN  calls' = [ calls EXCEPT ![p] =
           IF ~ready THEN Done(c, Throw(TypeErrorMsg))
           ELSE IF Len(assistants) = 0 THEN Done(c, Throw(NoAssistantsMsg))
           ELSE [ c EXCEPT !.id = DefaultAssistant(assistants).id,
                           !.fields = ConversationTopicData(args) ] ]
  /\ UNCHANGED << ready, assistants, db, nextId, now >>
  /\ UNCHANGED chanVars

\* create_new_conversation: createTopic(defaultAssistant.id, topicData) up
\* to its dispatch
NewConversationRead(p) ==
  /\ calls[p].op = "createNewConversation" /\ calls[p].pc = "read"
  /\ LET c == calls[p]
         r == getAssistantById(c.id)
     IN  IF ~r.ok \/ r.val = Null
         THEN /\ calls' = [ calls EXCEPT ![p] = Done(c, Throw(CreateTopicFailedMsg)) ]
              /\ UNCHANGED nextId
         ELSE /\ nextId <= MaxIds
              /\ calls' = [ calls EXCEPT ![p] =
                   [ c EXCEPT !.pc = "dispatch",
                              !.rd = r.val,
                              !.out = << NewTopic(c.id, c.fields, nextId, now) >> ] ]
              /\ nextId' = nextId + 1
  /\ UNCHANGED << ready, assistants, db, now, ops >>
  /\ UNCHANGED chanVars

\* updateTopic without the pinned id and assistantId: the caller's win
UpdatedTopicUnpinned(topic, updates, id, time) ==
  Spread(Spread(topic, updates), [ updatedAt |-> time ])

\* { ...topic, ...updates, id, assistantId: topic.assistantId, updatedAt }
UpdatedTopic(topic, updates, id, time) ==
  Spread(Spread(topic, updates),
         [ id |-> id, assistantId |-> topic.assistantId, updatedAt |-> time ])

\* updateTopic up to its dispatch
UpdateTopicRead(p, id, updates) ==
  /\ MayStart(p)
  /\ ops' = ops + 1
  /\ LET c == Started("updateTopic", "dispatch", id, updates)
         topic == getTopicById(id)
     IN  calls' = [ calls EXCEPT ![p] =
           IF topic = Null THEN Done(c, Throw(TopicNotFoundMsg))
           ELSE [ c EXCEPT !.rd = topic,
                           !.out = << UpdatedTopic(topic[1], updates, id, now) >> ] ]
  /\ UNCHANGED << ready, assistants, db, nextId, now >>
  /\ UNCHANGED chanVars

\* updateTopic: the updateTopic dispatch lands and the method returns
UpdateTopicDispatch(p) ==
  /\ calls[p].op = "updateTopic" /\ calls[p].pc = "dispatch"
  /\ assistants' = UpdateTopicAction(assistants, calls[p].rd[1].assistantId, calls[p].out[1])
  /\ calls' = [ calls EXCEPT ![p] = Done(calls[p], Ok(calls[p].out[1])) ]
  /\ UNCHANGED << ready, db, nextId, now, ops >>
  /\ UNCHANGED chanVars

\* deleteTopic up to its dispatch
DeleteTopicRead(p, id) ==
  /\ MayStart(p)
  /\ ops' = ops + 1
  /\ LET c == Started("deleteTopic", "dispatch", id, Empty)
         topic == getTopicById(id)
     IN  calls' = [ calls EXCEPT ![p] =
           IF topic = Null THEN Done(c, Throw(TopicNotFoundMsg))
           ELSE [ c EXCEPT !.rd = topic ] ]
  /\ UNCHANGED << ready, assistants, db, nextId, now >>
  /\ UNCHANGED chanVars

\* deleteTopic: the removeTopic dispatch lands
DeleteTopicDispatch(p) ==
  /\ calls[p].op = "deleteTopic" /\ calls[p].pc = "dispatch"
  /\ assistants' = RemoveTopicAction(assistants, calls[p].rd[1].assistantId, calls[p].rd[1])
  /\ calls' = [ calls EXCEPT ![p].pc = "db" ]
  /\ UNCHANGED << ready, db, nextId, now, ops >>
  /\ UNCHANGED chanVars

\* deleteTopic: window.db.topics.delete(id), not inside a try of its own:
\* a failure reaches the method's catch and is rethrown
DeleteTopicDb(p, outcome) ==
  /\ calls[p].op = "deleteTopic" /\ calls[p].pc = "db"
  /\ db' = IF outcome = "ok" THEN DbDelete(db, calls[p].id) ELSE db
  /\ calls' = [ calls EXCEPT ![p] =
       Done([ calls[p] EXCEPT !.dbres = outcome ],
            IF outcome = "fail" THEN Throw(DbErrorMsg) ELSE OkVoid) ]
  /\ UNCHANGED << ready, assistants, nextId, now, ops >>
  /\ UNCHANGED chanVars

\* the object addMessageToTopic builds: defaults, then the caller's fields
NewMessage(topic, topicId, message, uuid) ==
  Spread([ id |-> uuid, assistantId |-> topic.assistantId, role |-> "user",
           content |-> "", topicId |-> topicId ],
         message)

\* { ...topic, messages: [...topic.messages, newMessage], updatedAt }
TopicWithMessage(topic, newMessage, time) ==
  Spread(topic, [ messages |-> Append(topic.messages, newMessage), updatedAt |-> time ])

\* the route's check of a send_message body: content and role are required
\* (the tool handler has no such check)
RouteAccepts(message) == Has(message, "content") /\ Has(message, "role")

\* POST /v1/topics/:topic_id/messages without content or role: 400 before
\* the service is called
RejectAddMessage(p, topicId, message) ==
  /\ MayStart(p)
  /\ ops' = ops + 1
  /\ ~RouteAccepts(message)
  /\ calls' = [ calls EXCEPT ![p] =
       Rejected(Started("addMessageToTopic", "route", topicId, message),
                << "content and role are required" >>) ]
  /\ UNCHANGED << ready, assistants, db, nextId, now >>
  /\ UNCHANGED chanVars

\* addMessageToTopic up to its dispatch: getTopicById, the new message, the
\* topic with the message appended
AddMessageRead(p, topicId, message) ==
  /\ MayStart(p)
  /\ ops' = ops + 1
  /\ LET c == Started("addMessageToTopic", "dispatch", topicId, message)
         topic == getTopicById(topicId)
     IN  IF topic = Null
         THEN /\ calls' = [ calls EXCEPT ![p] = Done(c, Throw(TopicNotFoundMsg)) ]
              /\ UNCHANGED nextId
         ELSE /\ nextId <= MaxIds
              /\ calls' = [ calls EXCEPT ![p] =
                   [ c EXCEPT !.rd = topic,
                              !.out = << TopicWithMessage(topic[1],
                                           NewMessage(topic[1], topicId, message, nextId),
                                           now) >> ] ]
              /\ nextId' = nextId + 1
  /\ UNCHANGED << ready, assistants, db, now >>
  /\ UNCHANGED chanVars

\* the message an addMessageToTopic call in flight has built
MessageOf(c) == c.out[1].messages[Len(c.out[1].messages)]

\* addMessageToTopic: the updateTopic dispatch lands
AddMessageDispatch(p) ==
  /\ calls[p].op = "addMessageToTopic" /\ calls[p].pc = "dispatch"
  /\ assistants' = UpdateTopicAction(assistants, calls[p].rd[1].assistantId, calls[p].out[1])
  /\ calls' = [ calls EXCEPT ![p].pc = "db" ]
  /\ UNCHANGED << ready, db, nextId, now, ops >>
  /\ UNCHANGED chanVars

\* addMessageToTopic: db.topics.update(topicId, { messages }); a failure is
\* logged and the method returns the message all the same
AddMessageDb(p, outcome) ==
  /\ calls[p].op = "addMessageToTopic" /\ calls[p].pc = "db"
  /\ db' = IF outcome = "ok" THEN DbUpdate(db, calls[p].id, calls[p].out[1].messages) ELSE db
  /\ calls' = [ calls EXCEPT ![p] =
       Done([ calls[p] EXCEPT !.dbres = outcome ], Ok(MessageOf(calls[p]))) ]
  /\ UNCHANGED << ready, assistants, nextId, now, ops >>
  /\ UNCHANGED chanVars

----------------------------------------------------------------------------
(* The handlers that create a topic themselves: POST / of the topics       *)
(* router and AssistantMCPService.createTopic.  Both read the state        *)
(* synchronously, write the database first and dispatch afterwards.        *)

\* the bodies these handlers read: assistant_id and an optional name
NameData == { Empty, [ name |-> "c" ] }

AssistantNotFoundRouteMsg == << "Assistant not found" >>
AssistantNotFoundMcpMsg   == << "Assistant not found: <id>" >>

\* { id, name: name || 'New Topic', assistantId, createdAt, updatedAt, messages: [] }
InlineTopic(assistantId, body, uuid, time) ==
  [ id |-> uuid, name |-> IF Has(body, "name") THEN body.name ELSE "New Topic",
    assistantId |-> assistantId, createdAt |-> time, updatedAt |-> time,
    messages |-> << >> ]

\* const { topics, ...assistantWithoutTopics } = assistant
WithoutTopics(assistant) ==
  [ k \in DOMAIN assistant \ { "topics" } |-> assistant[k] ]

\* const { messages, ...topicWithoutMessages } = topic
WithoutMessages(topic) ==
  [ k \in DOMAIN topic \ { "messages" } |-> topic[k] ]

\* state.assistants.assistants.find(a => a.id === assistant_id)
FindInState(c, assistantId, notFoundMsg) ==
  IF ~ready THEN Done(c, Throw(TypeErrorMsg))
  ELSE IF Find(assistants, LAMBDA a : a.id = assistantId) = Null
  THEN Done(c, Throw(notFoundMsg))
  ELSE c

\* POST / of the topics router up to db.topics.add
PostTopicsRead(p, assistantId, body) ==
  /\ MayStart(p)
  /\ ops' = ops + 1
  /\ LET c == Started("postTopics", "db", assistantId, body)
         f == FindInState(c, assistantId, AssistantNotFoundRouteMsg)
     IN  IF assistantId = Missing
         THEN /\ calls' = [ calls EXCEPT ![p] = Rejected(c, << "assistant_id is required" >>) ]
              /\ UNCHANGED nextId
         ELSE IF f.pc = "done"
         THEN /\ calls' = [ calls EXCEPT ![p] = f ]
              /\ UNCHANGED nextId
         ELSE /\ nextId <= MaxIds
              /\ calls' = [ calls EXCEPT ![p] =
                   [ c EXCEPT !.out = << InlineTopic(assistantId, body, nextId, now) >> ] ]
              /\ nextId' = nextId + 1
  /\ UNCHANGED << ready, assistants, db, now >>
  /\ UNCHANGED chanVars

\* AssistantMCPService.createTopic up to db.topics.add
McpCreateTopicRead(p, assistantId, body) ==
  /\ MayStart(p)
  /\ ops' = ops + 1
  /\ LET c == Started("mcpCreateTopic", "db", assistantId, body)
         f == FindInState(c, assistantId, AssistantNotFoundMcpMsg)
     IN  IF f.pc = "done"
         THEN /\ calls' = [ calls EXCEPT ![p] = f ]
              /\ UNCHANGED nextId
         ELSE /\ nextId <= MaxIds
              /\ calls' = [ calls EXCEPT ![p] =
                   [ c EXCEPT !.out = << InlineTopic(assistantId, body, nextId, now) >> ] ]
              /\ nextId' = nextId + 1
  /\ UNCHANGED << ready, assistants, db, now >>
  /\ UNCHANGED chanVars

\* both handlers: await db.topics.add, then dispatch addTopic and answer
\* with the topic's fields except messages; a failing add skips the
\* dispatch and is answered as an error.  "none" is the mock database the
\* handlers fall back to.
InlineDb(p, outcome) ==
  /\ calls[p].op \in { "postTopics", "mcpCreateTopic" } /\ calls[p].pc = "db"
  /\ db' = IF outcome = "ok" THEN DbPut(db, calls[p].out[1].id, << >>) ELSE db
  /\ assistants' = IF outcome = "fail" THEN assistants
                   ELSE AddTopicAction(assistants, calls[p].id, calls[p].out[1])
  /\ calls' = [ calls EXCEPT ![p] =
       Done([ calls[p] EXCEPT !.dbres = outcome ],
            IF outcome = "fail"
            THEN Throw(IF calls[p].op = "mcpCreateTopic"
                       THEN << "Failed to create topic: " >> \o DbErrorMsg
                       ELSE DbErrorMsg)
            ELSE Ok(WithoutMessages(calls[p].out[1]))) ]
  /\ UNCHANGED << ready, nextId, now, ops >>
  /\ UNCHANGED chanVars

----------------------------------------------------------------------------
(* Listing *)

RetrieveAssistantsMsg == << "Failed to retrieve assistants" >>
RetrieveTopicsMsg     == << "Failed to retrieve topics" >>

\* AssistantApiService.getAllAssistants: assistants.map with no check of
\* the collection; on an uninitialised store map throws and the catch
\* rethrows Error('Failed to retrieve assistants')
getAllAssistants ==
  IF ~ready THEN Throw(RetrieveAssistantsMsg)
  ELSE Ok([ i \in 1 .. Len(assistants) |-> WithoutTopics(assistants[i]) ])

\* TopicApiService.getAllTopics: [] on an uninitialised store; the throw
\* for an assistant that is not there is inside the try, whose catch
\* rethrows Error('Failed to retrieve topics')
getAllTopics(assistantId) ==
  LET found == Find(assistants, LAMBDA a : a.id = assistantId)
      all   == IF assistantId # Missing THEN found[1].topics ELSE AllTopics(assistants)
  IN  IF ~ready THEN Ok(<< >>)
      ELSE IF assistantId # Missing /\ found = Null THEN Throw(RetrieveTopicsMsg)
      ELSE Ok([ i \in 1 .. Len(all) |-> WithoutMessages(all[i]) ])

\* GET / of the topics router and AssistantMCPService.listTopics: the state
\* is read unchecked, and an assistant that is not there gives no topics
inlineListTopics(assistantId) ==
  LET found == Find(assistants, LAMBDA a : a.id = assistantId)
      all   == IF assistantId = Missing THEN AllTopics(assistants)
               ELSE IF found = Null THEN << >> ELSE found[1].topics
  IN  IF ~ready THEN Throw(TypeErrorMsg)
      ELSE Ok([ i \in 1 .. Len(all) |-> WithoutMessages(all[i]) ])

\* list_assistants
GetAllAssistants(p) ==
  /\ MayStart(p)
  /\ ops' = ops + 1
  /\ calls' = [ calls EXCEPT ![p] =
       Done(Started("getAllAssistants", "read", Missing, Empty), getAllAssistants) ]
  /\ UNCHANGED << ready, assistants, db, nextId, now >>
  /\ UNCHANGED chanVars

\* list_topics through TopicApiService
GetAllTopics(p, assistantId) ==
  /\ MayStart(p)
  /\ ops' = ops + 1
  /\ calls' = [ calls EXCEPT ![p] =
       Done(Started("getAllTopics", "read", assistantId, Empty), getAllTopics(assistantId)) ]
  /\ UNCHANGED << ready, assistants, db, nextId, now >>
  /\ UNCHANGED chanVars

\* list_topics through the topics router or AssistantMCPService
InlineListTopics(p, assistantId) ==
  /\ MayStart(p)
  /\ ops' = ops + 1
  /\ calls' = [ calls EXCEPT ![p] =
       Done(Started("inlineListTopics", "read", assistantId, Empty),
            inlineListTopics(assistantId)) ]
  /\ UNCHANGED << ready, assistants, db, nextId, now >>
  /\ UNCHANGED chanVars

\* get_topic_messages and GET /v1/topics/:topic_id/messages
GetTopicMessages(p, id) ==
  /\ MayStart(p)
  /\ ops' = ops + 1
  /\ calls' = [ calls EXCEPT ![p] =
       Done(Started("getTopicMessages", "read", id, Empty), getTopicMessages(id)) ]
  /\ UNCHANGED << ready, assistants, db, nextId, now >>
  /\ UNCHANGED chanVars

\* get_assistant and GET /v1/assistants/:assistant_id
GetAssistant(p, id) ==
  /\ MayStart(p)
  /\ ops' = ops + 1
  /\ calls' = [ calls EXCEPT ![p] =
       Done(Started("getAssistant", "read", id, Empty), getAssistantById(id)) ]
  /\ UNCHANGED << ready, assistants, db, nextId, now >>
  /\ UNCHANGED chanVars

\* the data GET /:topic_id of the topics router answers with: the metadata
\* of the store's Topic, if there is one, around the database's messages
TopicDetails(id, meta, messages) ==
  Spread([ id |-> id,
           name |-> IF meta # Null /\ Has(meta[1], "name") THEN meta[1].name
                    ELSE "Unknown Topic",
           messages |-> messages ],
         IF meta = Null THEN Empty
         ELSE [ k \in DOMAIN meta[1] \cap { "assistantId", "createdAt", "updatedAt" } |->
                  meta[1][k] ])

\* GET /:topic_id of the topics router: db.topics.get first, 404 without a
\* record; then the first Topic with the id in the state
topicDetails(id) ==
  IF id \notin DOMAIN db THEN Throw(<< "Topic not found" >>)
  ELSE IF ~ready THEN Throw(TypeErrorMsg)
  ELSE Ok(TopicDetails(id, Find(AllTopics(assistants), LAMBDA t : t.id = id), db[id]))

GetTopicDetails(p, id) ==
  /\ MayStart(p)
  /\ ops' = ops + 1
  /\ calls' = [ calls EXCEPT ![p] =
       Done(Started("topicDetails", "read", id, Empty), topicDetails(id)) ]
  /\ UNCHANGED << ready, assistants, db, nextId, now >>
  /\ UNCHANGED chanVars

----------------------------------------------------------------------------
(* Tool calls the handlers answer before any service method runs *)

\* the tools whose case starts by destructuring args
DestructuringOps ==
  { "getAssistant", "updateAssistant", "deleteAssistant", "getAllTopics",
    "createTopic", "updateTopic", "deleteTopic", "getTopicMessages", "mcpCreateTopic" }

\* the default case of the two handlers: assistant-manager returns an
\* isError block, AssistantMCPService throws into its own catch
UnknownToolOps == { "unknownTool", "mcpUnknownTool" }

\* a tools/call request without arguments: const { ... } = args throws a
\* TypeError inside the try
CallWithoutArguments(p, op) ==
  /\ MayStart(p)
  /\ ops' = ops + 1
  /\ calls' = [ calls EXCEPT ![p] =
       Done([ Started(op, "args", Missing, Empty) EXCEPT !.noargs = TRUE ],
            Throw(TypeErrorMsg)) ]
  /\ UNCHANGED << ready, assistants, db, nextId, now >>
  /\ UNCHANGED chanVars

\* a tools/call request naming a tool the handler has no case for
CallUnknownTool(p, op) ==
  /\ MayStart(p)
  /\ ops' = ops + 1
  /\ calls' = [ calls EXCEPT ![p] =
       Done(Started(op, "default", Missing, Empty), Throw(UnknownToolMsg)) ]
  /\ UNCHANGED << ready, assistants, db, nextId, now >>
  /\ UNCHANGED chanVars

----------------------------------------------------------------------------
(* The event streams: GET and POST / of the MCP SSE router, and the SSE    *)
(* endpoints of the MCP servers router.  A handler writes the headers,     *)
(* writes a first event, starts an interval timer that writes a pulse, and *)
(* listens for the request's close event to clear the timer.               *)

Subscribers == 1 .. NumSubscribers

\* setInterval(..., 30000), in seconds
PulseInterval == 30

\* time is followed in steps of half the interval
Quantum == PulseInterval \div 2

\* "get": GET / of the MCP SSE router, which runs to its end without
\* awaiting; "post": POST / of the same router, which awaits the MCP
\* request; "sse": the SSE endpoints of a server, which await its
\* description
Routes == { "get", "post", "sse" }

NoSubscriber ==
  [ route |-> "none", phase |-> "none", transport |-> "none", listening |-> FALSE,
    timer |-> FALSE, since |-> 0, fired |-> 0, failed |-> 0, events |-> << >> ]

\* res.write: a response whose connection is gone drops what is written
Write(sub, event) ==
  IF sub.transport = "alive" THEN Append(sub.events, event) ELSE sub.events

\* the first event a handler writes: POST / writes the result of the MCP
\* request (or its error), the others a 'connection' event
FirstEvent(route) == IF route = "post" THEN "result" ELSE "connection"

\* the handler from its first event on: the event, setInterval, and
\* req.on('close', ...)
Serving(sub) ==
  [ sub EXCEPT !.phase = "serving",
               !.events = Write(sub, FirstEvent(sub.route)),
               !.timer = TRUE,
               !.since = clock,
               !.listening = TRUE ]

\* a timer that fires every half interval
DueEarly(sub) ==
  sub.timer /\ clock = sub.since + Quantum * (sub.fired + 1)

\* the interval timer of a subscriber has its next callback now
Due(sub) ==
  sub.timer /\ clock = sub.since + PulseInterval * (sub.fired + 1)

\* a client connects; clients are interchangeable
Subscribe(s, route) ==
  /\ subscribers[s].phase = "none"
  /\ \A r \in Subscribers : r < s => subscribers[r].phase # "none"
  /\ LET sub == [ NoSubscriber EXCEPT !.route = route, !.phase = "connecting",
                                      !.transport = "alive" ]
     IN  subscribers' = [ subscribers EXCEPT ![s] =
                            IF route = "get" THEN Serving(sub) ELSE sub ]
  /\ UNCHANGED clock
  /\ UNCHANGED storeVars

\* the awaited call of the handler returned (or threw into the handler's
\* inner catch): the first event is written and the timer started
Established(s) ==
  /\ subscribers[s].phase = "connecting"
  /\ subscribers' = [ subscribers EXCEPT ![s] = Serving(subscribers[s]) ]
  /\ UNCHANGED clock
  /\ UNCHANGED storeVars

\* the inner catch of POST / that writes nothing
ServingSilently(sub) == [ Serving(sub) EXCEPT !.events = sub.events ]

\* the inner catch of POST /: the error is written as the event of the
\* request, and the handler goes on to its timer and its close listener
ServingAfterError(sub) == [ Serving(sub) EXCEPT !.events = Write(sub, "error") ]

\* POST /: the awaited MCP request threw
RequestThrew(s) ==
  /\ subscribers[s].phase = "connecting" /\ subscribers[s].route = "post"
  /\ subscribers' = [ subscribers EXCEPT ![s] = ServingAfterError(subscribers[s]) ]
  /\ UNCHANGED clock
  /\ UNCHANGED storeVars

\* POST / with a method that is neither tools/list nor tools/call: the
\* handler throws 'Unsupported method' without awaiting anything
PostUnsupported(s) ==
  /\ subscribers[s].phase = "none"
  /\ \A r \in Subscribers : r < s => subscribers[r].phase # "none"
  /\ subscribers' = [ subscribers EXCEPT ![s] =
       ServingAfterError([ NoSubscriber EXCEPT !.route = "post", !.phase = "connecting",
                                               !.transport = "alive" ]) ]
  /\ UNCHANGED clock
  /\ UNCHANGED storeVars

\* the client goes away
Disconnect(s) ==
  /\ subscribers[s].transport = "alive"
  /\ subscribers' = [ subscribers EXCEPT ![s].transport = "gone" ]
  /\ UNCHANGED clock
  /\ UNCHANGED storeVars

\* the request emits 'close': the listeners registered by then run and
\* clear the timer, which is gone with its count of callbacks; a handler
\* that is still awaiting has registered none
CloseSignal(s) ==
  /\ subscribers[s].transport = "gone"
  /\ subscribers' = [ subscribers EXCEPT ![s] =
       IF @.listening
       THEN [ @ EXCEPT !.transport = "closed", !.phase = "closed",
                       !.timer = FALSE, !.since = 0, !.fired = 0 ]
       ELSE [ @ EXCEPT !.transport = "closed" ] ]
  /\ UNCHANGED clock
  /\ UNCHANGED storeVars

\* the callback of the interval timer: res.write of a pulse, unguarded
Pulse(s) ==
  /\ Due(subscribers[s])
  /\ subscribers' = [ subscribers EXCEPT ![s] =
       [ @ EXCEPT !.events = Write(subscribers[s], "pulse"),
                  !.fired = @ + 1,
                  !.failed = IF subscribers[s].transport = "alive" THEN @ ELSE @ + 1 ] ]
  /\ UNCHANGED clock
  /\ UNCHANGED storeVars

\* time passes, once the callbacks that are due have run
Advance ==
  /\ clock < MaxQuanta * Quantum
  /\ \A s \in Subscribers : ~Due(subscribers[s])
  /\ clock' = clock + Quantum
  /\ UNCHANGED subscribers
  /\ UNCHANGED storeVars

ChannelInit ==
  /\ subscribers = [ s \in Subscribers |-> NoSubscriber ]
  /\ clock = 0

----------------------------------------------------------------------------
(* The environment *)

\* the store as the renderer sets it up: the default assistant and its topic
InitialAssistants ==
  << [ id |-> DefaultId, name |-> "Default Assistant",
       topics |-> << [ id |-> InitialTopicId, assistantId |-> DefaultId,
                       name |-> "Test Topic", createdAt |-> 0, updatedAt |-> 0,
                       messages |-> << >> ] >> ] >>

\* the renderer initialises its store and its database
Hydrate ==
  /\ ~ready
  /\ ready' = TRUE
  /\ assistants' = InitialAssistants
  /\ db' = DbPut(db, InitialTopicId, << >>)
  /\ UNCHANGED << nextId, now, calls, ops >>
  /\ UNCHANGED chanVars

\* time passes; the clock is read when a call starts
Tick ==
  /\ now < MaxTime
  /\ ops < MaxOps
  /\ now' = now + 1
  /\ UNCHANGED << ready, assistants, db, nextId, calls, ops >>
  /\ UNCHANGED chanVars

Init ==
  /\ ready = FALSE
  /\ assistants = << >>
  /\ db = << >>
  /\ nextId = FirstUuid
  /\ now = 0
  /\ calls = [ p \in Calls |-> Idle ]
  /\ ops = 0
  /\ ChannelInit

Next ==
  \/ Hydrate
  \/ Tick
  \/ \E p \in Calls, data \in AssistantData : CreateAssistant(p, data)
  \/ \E p \in Calls, id \in AssistantIds, updates \in AssistantUpdates :
       UpdateAssistantRead(p, id, updates)
  \/ \E p \in Calls : UpdateAssistantDispatch(p)
  \/ \E p \in Calls, id \in AssistantIds : DeleteAssistantRead(p, id)
  \/ \E p \in Calls : DeleteAssistantDispatch(p)
  \/ \E p \in Calls, id \in AssistantIds \cup { Missing }, data \in TopicData :
       CreateTopicRead(p, id, data)
  \/ \E p \in Calls, data \in TopicData : RejectCreateTopic(p, data)
  \/ \E p \in Calls : CreateTopicDispatch(p)
  \/ \E p \in Calls, outcome \in DbOutcomes : CreateTopicDb(p, outcome)
  \/ \E p \in Calls, id \in AssistantIds \cup { Missing }, body \in NameData :
       PostTopicsRead(p, id, body)
  \/ \E p \in Calls, id \in AssistantIds \cup { Missing }, body \in NameData :
       McpCreateTopicRead(p, id, body)
  \/ \E p \in Calls, outcome \in DbOutcomes : InlineDb(p, outcome)
  \/ \E p \in Calls, id \in TopicIds, updates \in TopicUpdates :
       UpdateTopicRead(p, id, updates)
  \/ \E p \in Calls : UpdateTopicDispatch(p)
  \/ \E p \in Calls, id \in TopicIds : DeleteTopicRead(p, id)
  \/ \E p \in Calls : DeleteTopicDispatch(p)
  \/ \E p \in Calls, outcome \in DbOutcomes : DeleteTopicDb(p, outcome)
  \/ \E p \in Calls, id \in TopicIds, message \in MessageData :
       AddMessageRead(p, id, message)
  \/ \E p \in Calls, id \in TopicIds, message \in MessageData :
       RejectAddMessage(p, id, message)
  \/ \E p \in Calls : AddMessageDispatch(p)
  \/ \E p \in Calls, outcome \in DbOutcomes : AddMessageDb(p, outcome)
  \/ \E p \in Calls : GetAllAssistants(p)
  \/ \E p \in Calls, id \in AssistantIds \cup { Missing } : GetAllTopics(p, id)
  \/ \E p \in Calls, id \in AssistantIds \cup { Missing } : InlineListTopics(p, id)
  \/ \E p \in Calls, id \in TopicIds : GetTopicMessages(p, id)
  \/ \E p \in Calls, id \in AssistantIds : GetAssistant(p, id)
  \/ \E p \in Calls, id \in TopicIds \cup DOMAIN db : GetTopicDetails(p, id)
  \/ \E p \in Calls, op \in DestructuringOps : CallWithoutArguments(p, op)
  \/ \E p \in Calls, op \in UnknownToolOps : CallUnknownTool(p, op)
  \/ \E p \in Calls, args \in ConversationArgs : NewConversationSelect(p, args)
  \/ \E p \in Calls : NewConversationRead(p)

Spec == Init /\ [][Next]_vars

\* TopicApiService.createTopic running against assistants that are created
\* and deleted meanwhile
CreateTopicNext ==
  \/ Hydrate
  \/ Tick
  \/ \E p \in Calls, data \in AssistantData : CreateAssistant(p, data)
  \/ \E p \in Calls, id \in AssistantIds : DeleteAssistantRead(p, id)
  \/ \E p \in Calls : DeleteAssistantDispatch(p)
  \/ \E p \in Calls, id \in AssistantIds \cup { Missing }, data \in TopicData :
       CreateTopicRead(p, id, data)
  \/ \E p \in Calls, data \in TopicData : RejectCreateTopic(p, data)
  \/ \E p \in Calls : CreateTopicDispatch(p)
  \/ \E p \in Calls, outcome \in DbOutcomes : CreateTopicDb(p, outcome)

CreateTopicSpec == Init /\ [][CreateTopicNext]_vars

\* TopicApiService.updateTopic running against topics that are deleted
\* meanwhile and assistants that are created meanwhile
TopicUpdateNext ==
  \/ Hydrate
  \/ Tick
  \/ \E p \in Calls, data \in AssistantData : CreateAssistant(p, data)
  \/ \E p \in Calls, id \in TopicIds, updates \in TopicUpdates :
       UpdateTopicRead(p, id, updates)
  \/ \E p \in Calls : UpdateTopicDispatch(p)
  \/ \E p \in Calls, id \in TopicIds : DeleteTopicRead(p, id)
  \/ \E p \in Calls : DeleteTopicDispatch(p)
  \/ \E p \in Calls, outcome \in DbOutcomes : DeleteTopicDb(p, outcome)

TopicUpdateSpec == Init /\ [][TopicUpdateNext]_vars

\* the stores two racing updates can find: the initial one, and the one an
\* update_assistant whose body names the topics leaves
RaceStores ==
  { InitialAssistants,
    UpdateAssistantAction(InitialAssistants,
      MergedAssistant(InitialAssistants[1],
                      [ topics |-> << CallerTopic(InitialTopicId, UnknownId) >> ],
                      DefaultId)) }

UpdateRaceInit ==
  /\ ready = TRUE
  /\ assistants \in RaceStores
  /\ db = DbPut(<< >>, InitialTopicId, << >>)
  /\ nextId = FirstUuid
  /\ now = 0
  /\ calls = [ p \in Calls |-> Idle ]
  /\ ops = 0
  /\ ChannelInit

\* updateTopic and updateAssistant calls racing on the default assistant
\* and its topic
UpdateRaceNext ==
  \/ Tick
  \/ \E p \in Calls, updates \in TopicUpdates :
       UpdateTopicRead(p, InitialTopicId, updates)
  \/ \E p \in Calls : UpdateTopicDispatch(p)
  \/ \E p \in Calls, updates \in AssistantUpdates :
       UpdateAssistantRead(p, DefaultId, updates)
  \/ \E p \in Calls : UpdateAssistantDispatch(p)

UpdateRaceSpec == UpdateRaceInit /\ [][UpdateRaceNext]_vars

\* TopicApiService.addMessageToTopic running against topics that are deleted
\* meanwhile
AddMessageNext ==
  \/ Hydrate
  \/ Tick
  \/ \E p \in Calls, id \in TopicIds, message \in MessageData :
       AddMessageRead(p, id, message)
  \/ \E p \in Calls, id \in TopicIds, message \in MessageData :
       RejectAddMessage(p, id, message)
  \/ \E p \in Calls : AddMessageDispatch(p)
  \/ \E p \in Calls, outcome \in DbOutcomes : AddMessageDb(p, outcome)
  \/ \E p \in Calls, id \in TopicIds : DeleteTopicRead(p, id)
  \/ \E p \in Calls : DeleteTopicDispatch(p)
  \/ \E p \in Calls, outcome \in DbOutcomes : DeleteTopicDb(p, outcome)

AddMessageSpec == Init /\ [][AddMessageNext]_vars

\* AssistantApiService.updateAssistant running against assistants that are
\* created and deleted meanwhile
AssistantUpdateNext ==
  \/ Hydrate
  \/ Tick
  \/ \E p \in Calls, data \in AssistantData : CreateAssistant(p, data)
  \/ \E p \in Calls, id \in AssistantIds, updates \in AssistantUpdates :
       UpdateAssistantRead(p, id, updates)
  \/ \E p \in Calls : UpdateAssistantDispatch(p)
  \/ \E p \in Calls, id \in AssistantIds : DeleteAssistantRead(p, id)
  \/ \E p \in Calls : DeleteAssistantDispatch(p)

AssistantUpdateSpec == Init /\ [][AssistantUpdateNext]_vars

\* a create_assistant body whose topic has no messages field
MessagelessData ==
  { [ topics |-> << [ id |-> UnknownId, assistantId |-> UnknownId, name |-> "c" ] >> ] }

\* TopicApiService.getTopicMessages running against topics that receive
\* messages and topics a caller wrote without a messages field
TopicMessagesNext ==
  \/ Hydrate
  \/ Tick
  \/ \E p \in Calls, data \in MessagelessData : CreateAssistant(p, data)
  \/ \E p \in Calls, id \in { InitialTopicId }, message \in MessageData :
       AddMessageRead(p, id, message)
  \/ \E p \in Calls : AddMessageDispatch(p)
  \/ \E p \in Calls, outcome \in DbOutcomes : AddMessageDb(p, outcome)
  \/ \E p \in Calls, id \in TopicIds : GetTopicMessages(p, id)

TopicMessagesSpec == Init /\ [][TopicMessagesNext]_vars

\* the tool handlers answering calls that succeed, calls whose service
\* method throws, calls without arguments and calls of unknown tools
ToolHandlerNext ==
  \/ Hydrate
  \/ Tick
  \/ \E p \in Calls, id \in AssistantIds : GetAssistant(p, id)
  \/ \E p \in Calls : GetAllAssistants(p)
  \/ \E p \in Calls, id \in TopicIds : GetTopicMessages(p, id)
  \/ \E p \in Calls, id \in TopicIds :
       AddMessageRead(p, id, [ content |-> "hi", role |-> "user" ])
  \/ \E p \in Calls : AddMessageDispatch(p)
  \/ \E p \in Calls, outcome \in DbOutcomes : AddMessageDb(p, outcome)
  \/ \E p \in Calls, op \in DestructuringOps : CallWithoutArguments(p, op)
  \/ \E p \in Calls, op \in UnknownToolOps : CallUnknownTool(p, op)

ToolHandlerSpec == Init /\ [][ToolHandlerNext]_vars

\* an assistant the renderer added itself; its ids are outside the range
\* of the uuids generated in a run
OtherAssistant ==
  [ id |-> MaxIds + 1, name |-> "Other",
    topics |-> << [ id |-> MaxIds + 2, assistantId |-> MaxIds + 1, name |-> "Other Topic",
                    createdAt |-> 0, updatedAt |-> 0, messages |-> << >> ] >> ]

\* the stores create_new_conversation can find: none yet, no assistant,
\* the default one alone, first or last, or only another one
ConversationStores ==
  { << >>, InitialAssistants, << OtherAssistant >>,
    InitialAssistants \o << OtherAssistant >>, << OtherAssistant >> \o InitialAssistants }

ConversationInit ==
  /\ ready \in BOOLEAN
  /\ assistants \in ConversationStores
  /\ ~ready => assistants = << >>
  /\ db = [ id \in { t.id : t \in Range(AllTopics(assistants)) } |-> << >> ]
  /\ nextId = FirstUuid
  /\ now = 0
  /\ calls = [ p \in Calls |-> Idle ]
  /\ ops = 0
  /\ ChannelInit

\* create_new_conversation running while the default assistant is deleted
ConversationNext ==
  \/ Hydrate
  \/ \E p \in Calls, args \in ConversationArgs : NewConversationSelect(p, args)
  \/ \E p \in Calls : NewConversationRead(p)
  \/ \E p \in Calls : CreateTopicDispatch(p)
  \/ \E p \in Calls, outcome \in DbOutcomes : CreateTopicDb(p, outcome)
  \/ \E p \in Calls : DeleteAssistantRead(p, DefaultId)
  \/ \E p \in Calls : DeleteAssistantDispatch(p)

ConversationSpec == ConversationInit /\ [][ConversationNext]_vars

\* the event streams by themselves: no event of a stream depends on the
\* stores
ChannelNext ==
  \/ \E s \in Subscribers, route \in Routes : Subscribe(s, route)
  \/ \E s \in Subscribers : Established(s)
  \/ \E s \in Subscribers : RequestThrew(s)
  \/ \E s \in Subscribers : PostUnsupported(s)
  \/ \E s \in Subscribers : Disconnect(s)
  \/ \E s \in Subscribers : CloseSignal(s)
  \/ \E s \in Subscribers : Pulse(s)
  \/ Advance

ChannelSpec == Init /\ [][ChannelNext]_vars

\* the streams of clients that only listen: GET / of the MCP SSE router
\* and the SSE endpoints of a server
ListenerNext ==
  \/ \E s \in Subscribers, route \in { "get", "sse" } : Subscribe(s, route)
  \/ \E s \in Subscribers : Established(s)
  \/ \E s \in Subscribers : Disconnect(s)
  \/ \E s \in Subscribers : CloseSignal(s)
  \/ \E s \in Subscribers : Pulse(s)
  \/ Advance

ListenerSpec == Init /\ [][ListenerNext]_vars

\* the streams of clients that post a request: POST / of the MCP SSE router
PushNext ==
  \/ \E s \in Subscribers : Subscribe(s, "post")
  \/ \E s \in Subscribers : PostUnsupported(s)
  \/ \E s \in Subscribers : Established(s)
  \/ \E s \in Subscribers : RequestThrew(s)
  \/ \E s \in Subscribers : Disconnect(s)
  \/ \E s \in Subscribers : CloseSignal(s)
  \/ \E s \in Subscribers : Pulse(s)
  \/ Advance

PushSpec == Init /\ [][PushNext]_vars

----------------------------------------------------------------------------
(* Properties *)

\* steps of a call, told by its position before and after
Step(p, op, from, to) ==
  /\ calls[p].pc = from /\ calls[p].op = op
  /\ calls'[p].pc = to /\ calls'[p].op = op

\* a call starts (and takes its first step)
Starts(p, op) == IsIdle(p) /\ calls'[p] # calls[p] /\ calls'[p].op = op

Returned(p, op) == calls[p].op = op /\ calls[p].pc = "done" /\ calls[p].res.ok

\* C1: when two addMessageToTopic calls on the same Topic have both
\* returned successfully, both new messages are in getTopicMessages of it.
C1_BothMessagesAppear ==
  \A p, q \in Calls :
    ( /\ p # q
      /\ Returned(p, "addMessageToTopic") /\ Returned(q, "addMessageToTopic")
      /\ calls[p].id = calls[q].id
      /\ getTopicMessages(calls[p].id).ok )
    => { calls[p].res.val[1], calls[q].res.val[1] }
         \subseteq Range(getTopicMessages(calls[p].id).val[1])

\* C2: an addMessageToTopic call that nothing overlapped (the Topic is as
\* the call read it when its dispatch lands) leaves getTopicMessages equal
\* to the messages it read followed by its new message.
C2_AppendInCallOrder ==
  [][ \A p \in Calls :
        ( /\ Step(p, "addMessageToTopic", "dispatch", "db")
          /\ getTopicById(calls[p].id) = calls[p].rd )
        => getTopicMessages(calls[p].id)'
             = Ok(Append(calls[p].rd[1].messages, MessageOf(calls[p]))) ]_vars

\* C3: the Assistant a successful createAssistant returns and writes to the
\* store has exactly one Topic, whose assistantId is the Assistant's id.
C3_ExactlyOneDefaultTopic ==
  [][ \A p \in Calls :
        ( Starts(p, "createAssistant") /\ calls'[p].res.ok )
        => LET a == calls'[p].res.val[1]
           IN  /\ Len(a.topics) = 1
               /\ a.topics[1].assistantId = a.id
               /\ assistants' = Append(assistants, a) ]_vars

\* C4: no two Assistants in the shared store have the same id.
C4_AssistantIdsUnique ==
  \A i, j \in 1 .. Len(assistants) : i # j => assistants[i].id # assistants[j].id

\* C5: at most one Topic across all Assistants' collections has a given id.
C5_TopicIdsUnique ==
  LET all == AllTopics(assistants)
  IN  \A i, j \in 1 .. Len(all) : i # j => all[i].id # all[j].id

\* C6: when createTopic's dispatch lands in a store that still holds the
\* Assistant, getTopic on the id of the Topic createTopic returns yields
\* that Topic.
C6_CreateThenGet ==
  [][ \A p \in Calls :
        ( /\ Step(p, "createTopic", "dispatch", "db")
          /\ getAssistantById(calls[p].id).val # Null )
        => getTopicById(calls[p].out[1].id)' = calls[p].out ]_vars

NamesMissingArgument(c) ==
  /\ ~c.res.ok
  /\ \E i \in 1 .. Len(c.res.msg) :
       c.res.msg[i] \in { "assistant_id is required", "content and role are required" }

\* the operations that create a topic: TopicApiService.createTopic behind
\* its route and its tool, POST / of the topics router, and
\* AssistantMCPService.createTopic
CreateTopicOps == { "createTopic", "postTopics", "mcpCreateTopic" }

\* C8: createTopic with an assistantId that resolves to no Assistant of the
\* initialised store fails as NotFound (its message says 'not found', the
\* route answers 404) and changes neither store.
C8_UnknownAssistantIsNotFound ==
  [][ \A p \in Calls :
        ( /\ Starts(p, "createTopic")
          /\ ready
          /\ calls'[p].id # Missing
          /\ Find(assistants, LAMBDA a : a.id = calls'[p].id) = Null )
        => /\ calls'[p].pc = "done"
           /\ ~calls'[p].res.ok
           /\ IncludesNotFound(calls'[p].res.msg)
           /\ RestStatus(calls'[p]) = 404
           /\ UNCHANGED << assistants, db >> ]_vars

\* C9: create_topic without assistant_id fails as InvalidArgument on every
\* surface (the failure names the missing argument; the routes answer 400)
\* and changes neither store.
C9_MissingAssistantIdIsInvalidArgument ==
  [][ \A p \in Calls :
        ( /\ \E op \in CreateTopicOps : Starts(p, op)
          /\ ready
          /\ calls'[p].id = Missing )
        => /\ calls'[p].pc = "done"
           /\ NamesMissingArgument(calls'[p])
           /\ (calls'[p].op # "mcpCreateTopic" /\ calls'[p].rejected
                 => RestStatus(calls'[p]) = 400)
           /\ UNCHANGED << assistants, db >> ]_vars

\* C10: when the database write of a topic creation or of a message append
\* fails, the operation returns success with the new Topic or Message, the
\* shared store holds the write, and the store is not touched by the failure.
C10_DbFailureSwallowed ==
  [][ \A p \in Calls :
        ( /\ \E op \in CreateTopicOps \cup { "addMessageToTopic" } : Step(p, op, "db", "done")
          /\ calls'[p].dbres = "fail" )
        => /\ calls'[p].res.ok
           /\ calls'[p].res.val =
                IF calls[p].op = "addMessageToTopic"
                THEN << MessageOf(calls[p]) >> ELSE calls[p].out
           /\ calls[p].out[1] \in Range(AllTopics(assistants'))
           /\ UNCHANGED assistants ]_vars

\* C11: when the database delete of deleteTopic fails after the removal was
\* dispatched, the call still reports success and the shared store is as
\* the removal left it.
C11_DeleteDbFailureSwallowed ==
  [][ \A p \in Calls :
        ( /\ Step(p, "deleteTopic", "db", "done")
          /\ calls'[p].dbres = "fail" )
        => /\ calls'[p].res.ok
           /\ RestStatus(calls'[p]) = 200
           /\ UNCHANGED assistants ]_vars

C13_UpdateAssistantKeepsId ==
  [][ \A p \in Calls :
        /\ Step(p, "updateAssistant", "dispatch", "done")
           => LET new == calls'[p].res.val[1]
              IN  /\ calls'[p].res.ok
                  /\ new.id = calls[p].id
                  /\ Len(assistants') = Len(assistants)
                  /\ \A i \in 1 .. Len(assistants) :
                       assistants'[i] =
                         IF assistants[i].id = calls[p].id THEN new ELSE assistants[i]
        /\ ( /\ Starts(p, "updateAssistant")
             /\ ready
             /\ Find(assistants, LAMBDA a : a.id = calls'[p].id) = Null )
           => /\ calls'[p].pc = "done"
              /\ ~calls'[p].res.ok
              /\ IncludesNotFound(calls'[p].res.msg)
              /\ RestStatus(calls'[p]) = 404
              /\ UNCHANGED << assistants, db >> ]_vars

\* C13 witness: an updateAssistant whose fields named another id has
\* returned and its record is in the store under the id it was called with
C13_Witness ==
  \E p \in Calls :
    /\ Returned(p, "updateAssistant")
    /\ Has(calls[p].fields, "id") /\ calls[p].fields.id # calls[p].id
    /\ calls[p].res.val[1].id = calls[p].id
    /\ calls[p].res.val[1] \in Range(assistants)

\* C14: when a deleteAssistant or a deleteTopic returns success, get on the
\* id it deleted returns absent (which is what makes a second delete of the
\* id fail as NotFound).
C14_DeletedIsAbsent ==
  [][ \A p \in Calls :
        /\ ( Step(p, "deleteAssistant", "dispatch", "done") /\ calls'[p].res.ok )
           => ( getAssistantById(calls[p].id).val = Null )'
        /\ ( Step(p, "deleteTopic", "db", "done") /\ calls'[p].res.ok )
           => ( getTopicById(calls[p].id) = Null )' ]_vars

\* C15: when deleteAssistant returns success, getTopic returns absent for
\* the id of every Topic the Assistants with the deleted id held just before.
C15_DeleteAssistantCascades ==
  [][ \A p \in Calls :
        ( Step(p, "deleteAssistant", "dispatch", "done") /\ calls'[p].res.ok )
        => \A id \in { t.id : t \in UNION { Range(a.topics) :
                         a \in { b \in Range(assistants) : b.id = calls[p].id } } } :
             getTopicById(id)' = Null ]_vars

\* C16: addMessageToTopic on a topic id that getTopicById does not resolve
\* fails as NotFound (its message says 'not found', the route answers 404)
\* and changes neither store.
C16_UnknownTopicIsNotFound ==
  [][ \A p \in Calls :
        ( /\ Starts(p, "addMessageToTopic")
          /\ ~calls'[p].rejected
          /\ getTopicById(calls'[p].id) = Null )
        => /\ calls'[p].pc = "done"
           /\ ~calls'[p].res.ok
           /\ IncludesNotFound(calls'[p].res.msg)
           /\ RestStatus(calls'[p]) = 404
           /\ IncludesNotFound(ToolMessage(calls'[p]))
           /\ UNCHANGED << assistants, db, nextId >> ]_vars

\* C16 witness: on an initialised store an addMessageToTopic on an unknown
\* topic id has failed
C16_Witness ==
  \E p \in Calls :
    /\ ready
    /\ calls[p].op = "addMessageToTopic" /\ calls[p].pc = "done"
    /\ ~calls[p].rejected /\ ~calls[p].res.ok
    /\ calls[p].id = UnknownId
    /\ RestStatus(calls[p]) = 404

\* C17: every Message in the message sequence of a Topic of the shared store
\* has the Topic's id as topicId and the Topic's assistantId as assistantId.
C17_MessagesCarryOwner ==
  \A t \in Range(AllTopics(assistants)) :
    \A m \in Range(t.messages) :
      m.topicId = t.id /\ m.assistantId = t.assistantId

\* C18: as long as getTopicById resolves a topic id, the messages
\* getTopicMessages returned for it stay at their positions: every step
\* leaves them a prefix of what it returns afterwards.
C18_MessagesImmutable ==
  [][ \A id \in TopicIds :
        ( getTopicById(id) # Null /\ getTopicById(id)' # Null )
        => LET old == getTopicById(id)[1].messages
           IN  /\ Len(old) <= Len(getTopicById(id)[1].messages)'
               /\ \A k \in 1 .. Len(old) :
                    old[k] = (getTopicById(id)[1].messages)'[k] ]_vars

\* C19: listAssistants succeeds in every state, with an empty sequence when
\* the store has no assistants collection, and changes neither store.
C19_ListAssistantsAlwaysSucceeds ==
  [][ \A p \in Calls :
        Starts(p, "getAllAssistants")
        => /\ calls'[p].res.ok
           /\ RestStatus(calls'[p]) = 200
           /\ ~ToolIsError(calls'[p])
           /\ ~ready => calls'[p].res.val = << << >> >>
           /\ UNCHANGED << assistants, db >> ]_vars

\* the operations that list topics: TopicApiService.getAllTopics behind its
\* route and its tool, GET / of the topics router and
\* AssistantMCPService.listTopics
ListTopicsOps == { "getAllTopics", "inlineListTopics" }

\* C20: on an initialised store listTopics with an assistantId no Assistant
\* has fails as NotFound (its message says 'not found', the route answers
\* 404); without assistantId it returns the Topics of all Assistants.
C20_ListTopicsNotFound ==
  [][ \A p \in Calls :
        ( ready /\ \E op \in ListTopicsOps : Starts(p, op) )
        => /\ ( /\ calls'[p].id # Missing
                /\ Find(assistants, LAMBDA a : a.id = calls'[p].id) = Null )
              => /\ ~calls'[p].res.ok
                 /\ IncludesNotFound(calls'[p].res.msg)
                 /\ RestStatus(calls'[p]) = 404
           /\ calls'[p].id = Missing
              => calls'[p].res =
                   Ok([ i \in 1 .. Len(AllTopics(assistants)) |->
                          WithoutMessages(AllTopics(assistants)[i]) ]) ]_vars

\* C21: getTopicMessages(id) fails with NotFound (a 'not found' message,
\* 404 from the route, isError from the tool) when no topic has the id, and
\* for a topic that is there it returns the topic's messages, the empty
\* sequence when the topic has none
C21_TopicMessagesOrNotFound ==
  [][ \A p \in Calls :
        Starts(p, "getTopicMessages") =>
          LET c     == calls'[p]
              topic == getTopicById(c.id)
          IN  IF topic = Null
              THEN /\ ~c.res.ok
                   /\ IncludesNotFound(c.res.msg)
                   /\ RestStatus(c) = 404
                   /\ ToolIsError(c)
              ELSE /\ c.res.ok
                   /\ RestStatus(c) = 200
                   /\ ~ToolIsError(c)
                   /\ c.res.val = << IF Has(topic[1], "messages")
                                     THEN topic[1].messages ELSE << >> >>
                   /\ (~Has(topic[1], "messages") \/ topic[1].messages = << >>)
                        => c.res.val = << << >> >> ]_vars

\* a call returned the empty sequence for a topic that has no messages
C21_Witness ==
  \E p \in Calls :
    /\ Returned(p, "getTopicMessages")
    /\ getTopicById(calls[p].id) # Null
    /\ calls[p].res.val = << << >> >>

\* C22: whatever the tool and its arguments, arguments left out included,
\* the tool handler answers a finished call with a content block or with an
\* isError block that carries a text; an error of a service method never
\* leaves the handler, and a result is never reported as an error
C22_HandlerNeverThrows ==
  \A p \in Calls :
    (calls[p].pc = "done" /\ ~calls[p].rejected) =>
      LET c == calls[p]
          r == ToolResult(c)
      IN  /\ r.kind \in { "content", "isError" }
          /\ r.kind = "isError" => r.text # NoMsg
          /\ (~c.res.ok \/ c.noargs) => r.kind = "isError"
          /\ (c.res.ok /\ ~GotNoAssistant(c)) => r.kind = "content"

\* a call without arguments was answered with an isError block
C22_Witness ==
  \E p \in Calls :
    /\ calls[p].pc = "done"
    /\ calls[p].noargs
    /\ calls[p].res.msg = << "<TypeError>" >>
    /\ ToolResult(calls[p]).kind = "isError"

\* the text says the tool is unknown
NamesUnknownTool(text) == \E i \in 1 .. Len(text) : text[i] = "Unknown tool: <name>"

\* C23: a call naming a tool outside the catalogue is answered at once with
\* an isError block saying the tool is unknown, and neither the shared
\* store nor the database changes
C23_UnknownToolIsInvalidOperation ==
  [][ \A p \in Calls :
        (IsIdle(p) /\ calls'[p] # calls[p] /\ calls'[p].op \in { "unknownTool", "mcpUnknownTool" })
          => /\ calls'[p].pc = "done"
             /\ ToolResult(calls'[p]).kind = "isError"
             /\ NamesUnknownTool(ToolResult(calls'[p]).text)
             /\ assistants' = assistants
             /\ db' = db
             /\ ready' = ready ]_vars

\* both handlers have answered a call of an unknown tool
C23_Witness ==
  \E p \in Calls :
    /\ calls[p].pc = "done"
    /\ calls[p].op = "mcpUnknownTool"
    /\ ready
    /\ NamesUnknownTool(ToolMessage(calls[p]))

\* C24: an operation with given arguments has the same outcome, the same
\* effect on both stores and a payload of the same shape whichever surface
\* it comes through: a send_message the tool surface carries out is one the
\* route carries out as well, a create_topic whose database write failed
\* fails on every surface or on none, and the topics returned by
\* create_topic have the same fields on every surface
C24_SurfacesAgree ==
  /\ \A p \in Calls :
        ( /\ calls[p].op = "addMessageToTopic"
          /\ calls[p].pc = "done"
          /\ ~calls[p].rejected
          /\ calls[p].res.ok )
        => RouteAccepts(calls[p].fields)
  /\ \A p, q \in Calls :
        ( /\ calls[p].op \in CreateTopicOps /\ calls[q].op \in CreateTopicOps
          /\ calls[p].pc = "done" /\ calls[q].pc = "done"
          /\ calls[p].dbres = "fail" /\ calls[q].dbres = "fail" )
        => calls[p].res.ok = calls[q].res.ok
  /\ \A p, q \in Calls :
        ( /\ calls[p].op \in CreateTopicOps /\ calls[q].op \in CreateTopicOps
          /\ calls[p].pc = "done" /\ calls[q].pc = "done"
          /\ calls[p].res.ok /\ calls[q].res.ok )
        => DOMAIN calls[p].res.val[1] = DOMAIN calls[q].res.val[1]

\* C25: when get_assistant or create_topic fails, the route and the tool
\* handler report the same message text
C25_SameFailureText ==
  \A p \in Calls :
    ( /\ calls[p].op \in { "getAssistant", "createTopic" }
      /\ calls[p].pc = "done"
      /\ ~calls[p].rejected
      /\ ~calls[p].noargs
      /\ ToolIsError(calls[p]) )
    => RestMessage(calls[p]) = ToolMessage(calls[p])

\* C26: create_new_conversation picks the assistant with id 'default' when
\* there is one and the first assistant otherwise; with no assistants (or
\* no store) it answers an isError block and changes nothing; from there on
\* it does what create_topic does for that assistant: the topic built from
\* the name is appended to the assistants with that id and no other, its id
\* gets an empty record in the database, and the call returns that topic
C26_NewConversationUnderDefault ==
  [][ \A p \in Calls :
        /\ Starts(p, "createNewConversation") =>
             IF ~ready \/ assistants = << >>
             THEN /\ calls'[p].pc = "done"
                  /\ ToolResult(calls'[p]).kind = "isError"
                  /\ assistants' = assistants /\ db' = db
             ELSE /\ calls'[p].pc = "read"
                  /\ calls'[p].id =
                       IF \E i \in 1 .. Len(assistants) : assistants[i].id = DefaultId
                       THEN DefaultId ELSE assistants[1].id
                  /\ assistants' = assistants /\ db' = db
        /\ Step(p, "createNewConversation", "read", "dispatch") =>
             /\ calls'[p].out = << NewTopic(calls[p].id, calls[p].fields, nextId, now) >>
             /\ calls'[p].out[1].assistantId = calls[p].id
             /\ assistants' = assistants /\ db' = db
        /\ Step(p, "createNewConversation", "dispatch", "db") =>
             /\ Len(assistants') = Len(assistants)
             /\ \A i \in 1 .. Len(assistants) :
                  assistants'[i].topics =
                    IF assistants[i].id = calls[p].id
                    THEN Append(assistants[i].topics, calls[p].out[1])
                    ELSE assistants[i].topics
             /\ db' = db
        /\ Step(p, "createNewConversation", "db", "done") =>
             /\ calls'[p].res = Ok(calls[p].out[1])
             /\ assistants' = assistants
             /\ db' \in { db, DbPut(db, calls[p].out[1].id, << >>) }
        /\ (calls[p].op = "createNewConversation" /\ calls[p].pc # "done"
             /\ calls'[p].pc = "done" /\ ~calls'[p].res.ok) =>
             /\ ToolResult(calls'[p]).kind = "isError"
             /\ assistants' = assistants /\ db' = db ]_vars

\* a conversation was created under the default assistant although another
\* assistant comes first in the list
C26_Witness ==
  \E p \in Calls :
    /\ Returned(p, "createNewConversation")
    /\ calls[p].id = DefaultId
    /\ Len(assistants) = 2
    /\ assistants[1].id # DefaultId
    /\ calls[p].res.val[1] \in Range(assistants[2].topics)

\* the events a subscriber has received of one kind
EventsOfKind(sub, kind) == { i \in 1 .. Len(sub.events) : sub.events[i] = kind }

\* C27: a subscriber whose handler has set the stream up, and whose
\* connection was alive throughout, has received exactly one 'connection'
\* event, and it is the first event it received
C27_ConnectionEventFirst ==
  \A s \in Subscribers :
    (subscribers[s].phase = "serving" /\ subscribers[s].transport = "alive")
      => /\ Len(subscribers[s].events) >= 1
         /\ subscribers[s].events[1] = "connection"
         /\ Cardinality(EventsOfKind(subscribers[s], "connection")) = 1

\* C28: once the close event of a subscriber's request has been emitted
\* its pulse timer is off, and no event is written to it any more; the
\* other subscribers' timers are not touched by the close
C28_ClosedHasNoTimer ==
  /\ [](\A s \in Subscribers :
          subscribers[s].transport = "closed" => ~subscribers[s].timer)
  /\ [][ \A s \in Subscribers :
            /\ subscribers[s].transport = "closed" =>
                 /\ subscribers'[s].events = subscribers[s].events
                 /\ subscribers'[s].fired = subscribers[s].fired
            /\ (subscribers[s].transport = "gone" /\ subscribers'[s].transport = "closed") =>
                 \A r \in Subscribers \ { s } : subscribers'[r] = subscribers[r] ]_vars

\* a subscriber that only listens, whose handler is serving it and whose
\* connection is alive
IdleOpen(sub) ==
  sub.route \in { "get", "sse" } /\ sub.phase = "serving" /\ sub.transport = "alive"

\* C29: a subscriber that only listens has received, between one and two
\* pulse intervals after its stream was set up, the 'connection' event and
\* one pulse and nothing else; and whenever the timer of an open subscriber
\* fires for the k-th time it is k intervals of 30 after the set-up, and
\* the pulse is the event the subscriber receives then
C29_PulseEveryInterval ==
  /\ [](\A s \in Subscribers :
          ( /\ IdleOpen(subscribers[s])
            /\ clock - subscribers[s].since > 30
            /\ clock - subscribers[s].since < 2 * 30 )
          => subscribers[s].events = << "connection", "pulse" >>)
  /\ [](\A s \in Subscribers :
          IdleOpen(subscribers[s])
          => /\ subscribers[s].fired <= (clock - subscribers[s].since) \div 30
             /\ subscribers[s].fired >= (clock - subscribers[s].since) \div 30 - 1
             /\ Cardinality(EventsOfKind(subscribers[s], "pulse")) = subscribers[s].fired)
  /\ [][ \A s \in Subscribers :
            ( /\ subscribers[s].transport = "alive"
              /\ subscribers'[s].fired # subscribers[s].fired )
            => /\ subscribers'[s].fired = subscribers[s].fired + 1
               /\ clock - subscribers[s].since = 30 * subscribers'[s].fired
               /\ subscribers'[s].events = Append(subscribers[s].events, "pulse") ]_vars

\* two intervals after its stream was set up a listening subscriber has
\* received its second pulse
C29_Witness ==
  \E s \in Subscribers :
    /\ IdleOpen(subscribers[s])
    /\ clock - subscribers[s].since = 2 * 30
    /\ subscribers[s].events = << "connection", "pulse", "pulse" >>

\* C30: a subscriber to whom a pulse could not be written is torn down:
\* once its request has emitted 'close' its timer is off and no further
\* pulse is attempted; and the step in which the write fails leaves every
\* other subscriber as it was
C30_FailedPulseTearsDown ==
  /\ [](\A s \in Subscribers :
          (subscribers[s].failed > 0 /\ subscribers[s].transport = "closed")
            => ~subscribers[s].timer /\ subscribers[s].phase = "closed")
  /\ [][ \A s \in Subscribers :
            subscribers'[s].failed # subscribers[s].failed
              => \A r \in Subscribers \ { s } : subscribers'[r] = subscribers[r] ]_vars

\* every call made so far is still on record and is one of ops
OnlyCallsOf(opset) ==
  /\ ops = Cardinality({ p \in Calls : calls[p].op # "idle" })
  /\ \A p \in Calls : calls[p].op \in opset \cup { "idle" }

\* C31: when no call is in flight, only createTopic and addMessageToTopic
\* calls were made and every write of theirs to the durable store
\* succeeded, the durable store's record of each Topic in the shared store
\* is that Topic's message sequence in the shared store.
C31_StoresAgreeWhenIdle ==
  ( /\ ready
    /\ OnlyCallsOf({ "createTopic", "addMessageToTopic" })
    /\ \A p \in Calls : IsIdle(p) /\ ~calls[p].rejected
    /\ \A p \in Calls : (calls[p].op # "idle" /\ calls[p].res.ok) => calls[p].dbres = "ok" )
  => \A i \in 1 .. Len(AllTopics(assistants)) :
        LET topic == AllTopics(assistants)[i]
        IN  /\ topic.id \in DOMAIN db
            /\ db[topic.id] = IF Has(topic, "messages") THEN topic.messages ELSE << >>

\* C32: an updateAssistant call that does not name the topics and an
\* updateTopic or addMessageToTopic call target different entities: when
\* they are the only calls made and both have returned, the store holds
\* the effects of both, the Assistant with the fields of the one and the
\* Topic as the other wrote it.
C32_DifferentEntitiesIndependent ==
  \A p, q \in Calls :
    ( /\ OnlyCallsOf({ "updateAssistant", "updateTopic", "addMessageToTopic" })
      /\ Returned(p, "updateAssistant") /\ ~Has(calls[p].fields, "topics")
      /\ calls[q].op \in { "updateTopic", "addMessageToTopic" }
      /\ calls[q].pc = "done" /\ calls[q].res.ok /\ ~calls[q].rejected )
    => /\ getTopicById(calls[q].id) = << calls[q].out[1] >>
       /\ \A k \in DOMAIN calls[p].fields \ { "id" } :
            getAssistantById(calls[p].id).val[1][k] = calls[p].fields[k]

\* the record a call merges: the entity as the call read it, overlaid with
\* the caller's fields, under the pinned fields
MergedField(c, k, pinned) ==
  IF k \in DOMAIN pinned THEN pinned[k]
  ELSE IF k \in DOMAIN c.fields THEN c.fields[k]
  ELSE c.rd[1][k]

\* q's dispatch lands after that of p, a call of the same operation on the
\* same entity that read the entity as q did
LandsLast(q, p, op) ==
  /\ p # q
  /\ Step(q, op, "dispatch", "done")
  /\ Returned(p, op)
  /\ calls[p].id = calls[q].id /\ calls[p].rd = calls[q].rd

\* C33: when two updateTopic calls, or two updateAssistant calls, read the
\* same entity before either dispatched, then once the second dispatch has
\* landed the entity stored is exactly the record that call merged: the
\* caller's fields, and for every other field the value the call read,
\* whatever the first call changed; and the call reports success with
\* that record.
C33_LastDispatchWins ==
  [][ \A p, q \in Calls :
        /\ LandsLast(q, p, "updateTopic")
             => LET stored == getTopicById(calls[q].id)'
                    pinned == [ id |-> calls[q].id,
                                assistantId |-> calls[q].rd[1].assistantId,
                                updatedAt |-> calls[q].out[1].updatedAt ]
                IN  /\ stored # Null
                    /\ DOMAIN stored[1] =
                         DOMAIN calls[q].rd[1] \cup DOMAIN calls[q].fields \cup DOMAIN pinned
                    /\ \A k \in DOMAIN stored[1] : stored[1][k] = MergedField(calls[q], k, pinned)
                    /\ calls'[q].res = Ok(stored[1])
        /\ LandsLast(q, p, "updateAssistant")
             => LET stored == getAssistantById(calls[q].id).val'
                    pinned == [ id |-> calls[q].id ]
                IN  /\ stored # Null
                    /\ DOMAIN stored[1] =
                         DOMAIN calls[q].rd[1] \cup DOMAIN calls[q].fields \cup DOMAIN pinned
                    /\ \A k \in DOMAIN stored[1] : stored[1][k] = MergedField(calls[q], k, pinned)
                    /\ calls'[q].res = Ok(stored[1]) ]_vars

\* the dispatch of the call has landed and its database step is to come
Dispatched(c) ==
  c.pc = "db" /\ c.op \in { "createTopic", "createNewConversation",
                            "deleteTopic", "addMessageToTopic" }

\* C34: a call that returns an error has changed nothing: the step in which
\* it fails leaves the shared store and the durable store as they are, and
\* no dispatch of the call had landed before.
C34_ErrorMeansUnchanged ==
  [][ \A p \in Calls :
        ( /\ calls'[p] # calls[p]
          /\ calls'[p].pc = "done" /\ ~calls'[p].res.ok )
        => /\ ~Dispatched(calls[p])
           /\ UNCHANGED << assistants, db >> ]_vars

\* C35: every Topic in the shared store has updatedAt >= createdAt,
\* whatever fields the callers of createTopic, updateTopic and
\* addMessageToTopic supplied; and the Topic an updateTopic or
\* addMessageToTopic call builds has the time of the call as its updatedAt.
C35_UpdatedNotBeforeCreated ==
  /\ [](\A i \in 1 .. Len(AllTopics(assistants)) :
          AllTopics(assistants)[i].updatedAt >= AllTopics(assistants)[i].createdAt)
  /\ [][ \A p \in Calls :
           ( /\ Starts(p, "updateTopic") \/ Starts(p, "addMessageToTopic")
             /\ calls'[p].out # Null )
           => calls'[p].out[1].updatedAt = now ]_vars

\* what a read of the Topic id answers when it looks at nothing but the
\* shared store
DetailsFromStore(id) ==
  LET topic == getTopicById(id)
  IN  IF topic = Null THEN Throw(<< "Topic not found" >>)
      ELSE Ok(TopicDetails(id, topic, getTopicMessages(id).val[1]))

\* a read op starts with the id it is about (and ends in the same step)
Reads(p, op) == Starts(p, op) /\ ~calls'[p].noargs

\* C36: the result of a read is a function of the shared store alone: a
\* read of the assistants, of an Assistant, of the topics, of a Topic or of
\* its messages returns what the store holds, whatever the durable store
\* holds.
C36_ReadsSeeOnlyTheStore ==
  [][ \A p \in Calls :
        /\ Reads(p, "getAllAssistants") => calls'[p].res = getAllAssistants
        /\ Reads(p, "getAssistant") => calls'[p].res = getAssistantById(calls'[p].id)
        /\ Reads(p, "getTopicMessages") => calls'[p].res = getTopicMessages(calls'[p].id)
        /\ Reads(p, "topicDetails") => calls'[p].res = DetailsFromStore(calls'[p].id) ]_vars

Answers(sub) == EventsOfKind(sub, "result") \cup EventsOfKind(sub, "error")

\* C38: a subscriber that posted a request and whose connection is alive
\* receives exactly one event for the request when it completes, a result
\* or an error, and is open afterwards: its handler is serving it with the
\* pulse timer on and the close listener in place.  Before the request
\* completes it has received nothing, and afterwards no second result or
\* error.
C38_OneEventPerRequest ==
  /\ [](\A s \in Subscribers :
          (subscribers[s].route = "post" /\ subscribers[s].transport = "alive")
            => /\ subscribers[s].phase = "connecting" => subscribers[s].events = << >>
               /\ subscribers[s].phase = "serving"
                    => /\ Cardinality(Answers(subscribers[s])) = 1
                       /\ subscribers[s].events[1] \in { "result", "error" })
  /\ [][ \A s \in Subscribers :
            ( /\ subscribers'[s].route = "post" /\ subscribers'[s].transport = "alive"
              /\ subscribers[s].phase # "serving" /\ subscribers'[s].phase = "serving" )
            => /\ \E e \in { "result", "error" } : subscribers'[s].events = << e >>
               /\ subscribers'[s].timer /\ subscribers'[s].listening ]_vars

\* a subscriber whose request failed has received the error event, stayed
\* open, and received a pulse one interval later
C38_Witness ==
  \E s \in Subscribers :
    /\ subscribers[s].route = "post" /\ subscribers[s].transport = "alive"
    /\ subscribers[s].phase = "serving"
    /\ subscribers[s].events = << "error", "pulse" >>

\* C39: every Topic in the collection of an Assistant has that Assistant's
\* id as its assistantId, and as long as a Topic id is in the shared store
\* the assistantId stored with it does not change.
C39_TopicsBelongToTheirOwner ==
  /\ [](\A a \in Range(assistants) : \A t \in Range(a.topics) : t.assistantId = a.id)
  /\ [][ \A t \in Range(AllTopics(assistants)) :
           \A u \in Range(AllTopics(assistants')) :
             u.id = t.id => u.assistantId = t.assistantId ]_vars

\* q is an updateTopic or addMessageToTopic call that read its Topic and has
\* a step to take, while a deleteTopic of the same id has returned
\* successfully and the id resolves to nothing
LateFor(q) ==
  /\ calls[q].op \in { "updateTopic", "addMessageToTopic" }
  /\ calls[q].pc \in { "dispatch", "db" }
  /\ \E p \in Calls : Returned(p, "deleteTopic") /\ calls[p].id = calls[q].id
  /\ getTopicById(calls[q].id) = Null

\* C40: a deleted Topic is not resurrected: a step of an updateTopic or an
\* addMessageToTopic call that read the Topic before a successful
\* deleteTopic and acts after it leaves the id unresolvable in the shared
\* store, creates no record for it in the durable store, and, where it
\* ends the call, does not report success.
C40_NoResurrection ==
  [][ \A q \in Calls :
        ( LateFor(q) /\ calls'[q] # calls[q] )
        => /\ \A id \in { calls[q].id } : getTopicById(id)' = Null
           /\ calls[q].id \notin DOMAIN db => calls[q].id \notin DOMAIN db'
           /\ calls'[q].pc = "done" => ~calls'[q].res.ok ]_vars

====
